---- MODULE Spec2Model ----
(***************************************************************************)
(* The-FileChange-Inator (src/main.rs): instances of the watcher started   *)
(* on one literal (wildcard-free) target, the lock file they share under   *)
(* $HOME/filewatcher/, and the watched path, which the environment         *)
(* creates, touches, deletes or replaces by a directory at any time.       *)
(* Every action is one system call of an instance, or one change of the    *)
(* watched path by the environment.                                        *)
(*                                                                         *)
(* Spec         main: lock file, wait engine on a literal target, exit     *)
(* SpecWild     wait_for_file on a pattern, with resolve_file_name and the *)
(*              directory it lists                                         *)
(* SpecSanitize sanitize on every short string                             *)
(***************************************************************************)
EXTENDS Integers, Sequences, FiniteSets, TLC

\* ---- bounds of the model
NumProcs == 3        \* instances started on the same target
MaxTime == 1         \* modification times run up to MaxTime seconds after the epoch
PreEpoch == 1        \* ... and from PreEpoch seconds before it
MaxPart == 1         \* longest prefix and suffix of a pattern's final segment
MaxName == 2         \* longest name of a directory entry
MaxEntries == 2      \* most entries in the listed directory
MaxLen == 3          \* longest input of sanitize

\* ---- constants of the program
RET_CANNOT_LOCK == 1
RET_IS_DIR == 2
RET_FILE_MISSING == 3
EXIT_SUCCESS == 0    \* status of a main that returns Ok(())
EXIT_FAILURE == 1    \* status of a main that returns Err(_): ExitCode::FAILURE
EXIT_PANIC == 101    \* status of a process that panicked (a failed unwrap/expect)

Procs == 1..NumProcs
Times == (0 - PreEpoch)..MaxTime
NoIno == 0           \* no file at the lock path / no open lock file

VARIABLES
  pc,        \* pc[p]: where instance p stands in main
  update,    \* update[p]: args.update
  fd,        \* fd[p]: the inode p's File `lock` is open on (NoIno: none);
             \*        an inode is named by the instance whose open created it
  held,      \* the instances that hold the exclusive flock of the inode fd[p]
  last_mod,  \* last_mod[p]: <<t>> once wait_for_file_update captured its baseline
  base_time, \* base_time[p]: <<m>>, the modification time metadata.modified()
             \*               gave when the baseline was captured
  result,    \* result[p]: how main ended (Running, Ok, Err(code) or Panic(code, site))
  exitCode,  \* exitCode[p]: <<c>> once the process has exited
  lockDir,   \* whether $HOME/filewatcher/ exists
  lockIno,   \* the inode at the lock path (NoIno: no lock file)
  target,    \* the watched path: "absent", "file" or "dir"
  mtime      \* its modification time, seconds relative to the epoch

vars == <<pc, update, fd, held, last_mod, base_time, result, exitCode, lockDir,
          lockIno, target, mtime>>

procVars == <<pc, update, fd, held, last_mod, base_time, result, exitCode>>
lockVars == <<lockDir, lockIno>>
targetVars == <<target, mtime>>

\* wait_for_file on a pattern (SpecWild)
VARIABLES
  filepath,        \* the pattern wait_for_file was called with
  temp_filepath,   \* the path whose existence the loop checks
  wpc,             \* where wait_for_file stands: "top", "check", "sleep",
                   \* "returned", "panicked" ("off": not running)
  res,             \* what resolve_file_name gave in this iteration
  entries,         \* the names in the directory DirPath
  dirOk,           \* whether DirPath exists and can be read
  overflow_checks  \* whether the build traps integer overflow (debug builds)

wildVars == <<filepath, temp_filepath, wpc, res, entries, dirOk, overflow_checks>>

\* sanitize (SpecSanitize)
VARIABLES
  san_in,    \* the input string
  san_out,   \* what sanitize returned
  san_pc     \* "call", "done" ("off": not running)

sanVars == <<san_in, san_out, san_pc>>

auxVars == <<wildVars, sanVars>>
allVars == <<vars, wildVars, sanVars>>

\* ---- what main ends with
Running == [kind |-> "Running", code |-> 0, site |-> "main"]
Ok == [kind |-> "Ok", code |-> 0, site |-> "main"]
Err(c) == [kind |-> "Err", code |-> c, site |-> "main"]
\* a failed unwrap()/expect() at `site`; code is the Err value unwrapped, 0 for
\* an io::Error
Panic(c, s) == [kind |-> "Panic", code |-> c, site |-> s]

\* ---- pure helpers

\* get_seconds: whole seconds since the epoch; 1 when the time is before it
get_seconds(modified) == IF modified >= 0 THEN modified ELSE 1

\* fs::exists(path).unwrap() on the watched path
exists(t) == t # "absent"

\* get_last_mod: Ok(seconds), Err(RET_IS_DIR) or Err(RET_FILE_MISSING)
get_last_mod(t, m) ==
  IF t = "absent" THEN [ok |-> FALSE, val |-> RET_FILE_MISSING]
  ELSE IF t = "dir" THEN [ok |-> FALSE, val |-> RET_IS_DIR]
  ELSE [ok |-> TRUE, val |-> get_seconds(m)]

\* the exit status of the process for what main ended with
\* (Termination for Result<(), i32>; a panic ends the process with 101)
report(r) ==
  IF r.kind = "Ok" THEN EXIT_SUCCESS
  ELSE IF r.kind = "Err" THEN EXIT_FAILURE
  ELSE EXIT_PANIC

\* try_lock_exclusive succeeds unless another open file holds the inode's flock
LockFree(p) == \A q \in held : q = p \/ fd[q] # fd[p]

Init ==
  /\ pc = [p \in Procs |-> "start"]
  /\ update = [p \in Procs |-> FALSE]
  /\ fd = [p \in Procs |-> NoIno]
  /\ held = {}
  /\ last_mod = [p \in Procs |-> <<>>]
  /\ base_time = [p \in Procs |-> <<>>]
  /\ result = [p \in Procs |-> Running]
  /\ exitCode = [p \in Procs |-> <<>>]
  /\ lockDir \in BOOLEAN
  /\ lockIno = NoIno
  /\ target \in {"absent", "file", "dir"}
  /\ mtime = 0

\* ---- create_lock_file

\* Args::parse(), then fs::exists(&lock_path).  Instances are named in the
\* order in which they start.
CheckLockDir(p, u) ==
  /\ pc[p] = "start"
  /\ \A q \in Procs : q < p => pc[q] # "start"
  /\ update' = [update EXCEPT ![p] = u]
  /\ pc' = [pc EXCEPT ![p] = IF lockDir THEN "open" ELSE "mkdir"]
  /\ UNCHANGED <<fd, held, last_mod, base_time, result, exitCode, lockVars, targetVars, auxVars>>

\* fs::create_dir(&lock_path).expect(..): panics when the directory exists by now
CreateLockDir(p) ==
  /\ pc[p] = "mkdir"
  /\ IF lockDir
       THEN /\ result' = [result EXCEPT ![p] = Panic(0, "create_dir")]
            /\ pc' = [pc EXCEPT ![p] = "exit"]
            /\ UNCHANGED lockDir
       ELSE /\ lockDir' = TRUE
            /\ pc' = [pc EXCEPT ![p] = "open"]
            /\ UNCHANGED result
  /\ UNCHANGED <<update, fd, held, last_mod, base_time, exitCode, lockIno, targetVars, auxVars>>

\* OpenLockFile with create_new(true): a file already at the lock path fails the
\* open, and expect() panics
OpenLockFile_CreateNew(p) ==
  /\ pc[p] = "open"
  /\ IF lockIno = NoIno
       THEN /\ lockIno' = p
            /\ fd' = [fd EXCEPT ![p] = p]
            /\ pc' = [pc EXCEPT ![p] = "lock"]
            /\ UNCHANGED result
       ELSE /\ result' = [result EXCEPT ![p] = Panic(0, "open")]
            /\ pc' = [pc EXCEPT ![p] = "exit"]
            /\ UNCHANGED <<lockIno, fd>>
  /\ UNCHANGED <<update, held, last_mod, base_time, exitCode, lockDir, targetVars, auxVars>>

\* OpenOptions read, write, create: opens the file at the lock path, creating it
OpenLockFile(p) ==
  /\ pc[p] = "open"
  /\ IF lockIno = NoIno
       THEN /\ lockIno' = p
            /\ fd' = [fd EXCEPT ![p] = p]
       ELSE /\ fd' = [fd EXCEPT ![p] = lockIno]
            /\ UNCHANGED lockIno
  /\ pc' = [pc EXCEPT ![p] = "lock"]
  /\ UNCHANGED <<update, held, last_mod, base_time, result, exitCode, lockDir, targetVars, auxVars>>

\* ---- main

\* lock.try_lock_exclusive() is Ok(()): into the wait engine
TryLockOk(p) ==
  /\ pc[p] = "lock"
  /\ LockFree(p)
  /\ held' = held \cup {p}
  /\ pc' = [pc EXCEPT ![p] = IF update[p] THEN "uexists" ELSE "acheck"]
  /\ UNCHANGED <<update, fd, last_mod, base_time, result, exitCode, lockVars, targetVars, auxVars>>

\* TryLockFail without its return: main falls through to remove_lock_file
TryLockFail_FallsThrough(p) ==
  /\ pc[p] = "lock"
  /\ ~LockFree(p)
  /\ pc' = [pc EXCEPT ![p] = "remove"]
  /\ UNCHANGED <<update, fd, held, last_mod, base_time, result, exitCode, lockVars, targetVars, auxVars>>

\* lock.try_lock_exclusive() is Err(e): return Err(RET_CANNOT_LOCK)
TryLockFail(p) ==
  /\ pc[p] = "lock"
  /\ ~LockFree(p)
  /\ result' = [result EXCEPT ![p] = Err(RET_CANNOT_LOCK)]
  /\ pc' = [pc EXCEPT ![p] = "exit"]
  /\ UNCHANGED <<update, fd, held, last_mod, base_time, exitCode, lockVars, targetVars, auxVars>>

\* ---- wait_for_file_update

\* fs::exists(&filename).unwrap(): the modification loop, or wait_for_file
UpdateExists(p) ==
  /\ pc[p] = "uexists"
  /\ pc' = [pc EXCEPT ![p] = IF exists(target) THEN "baseline" ELSE "acheck"]
  /\ UNCHANGED <<update, fd, held, last_mod, base_time, result, exitCode, lockVars, targetVars, auxVars>>

\* let last_mod = get_last_mod(&filename).unwrap(): an Err panics here
Baseline(p) ==
  /\ pc[p] = "baseline"
  /\ LET r == get_last_mod(target, mtime) IN
       IF r.ok
         THEN /\ last_mod' = [last_mod EXCEPT ![p] = <<r.val>>]
              /\ base_time' = [base_time EXCEPT ![p] = <<mtime>>]
              /\ pc' = [pc EXCEPT ![p] = "poll"]
              /\ UNCHANGED result
         ELSE /\ result' = [result EXCEPT ![p] = Panic(r.val, "baseline")]
              /\ pc' = [pc EXCEPT ![p] = "exit"]
              /\ UNCHANGED <<last_mod, base_time>>
  /\ UNCHANGED <<update, fd, held, exitCode, lockVars, targetVars, auxVars>>

\* Poll with `last_mod <= latest_mod` for `last_mod < latest_mod`
Poll_NonStrict(p) ==
  /\ pc[p] = "poll"
  /\ LET r == get_last_mod(target, mtime) IN
       IF r.ok
         THEN /\ pc' = [pc EXCEPT ![p] =
                   IF last_mod[p][1] <= r.val THEN "remove" ELSE "usleep"]
              /\ UNCHANGED result
         ELSE /\ result' = [result EXCEPT ![p] = Err(r.val)]
              /\ pc' = [pc EXCEPT ![p] = "exit"]
  /\ UNCHANGED <<update, fd, held, last_mod, base_time, exitCode, lockVars, targetVars, auxVars>>

\* Poll with a stat that does not look at metadata.is_dir()
Poll_NoDirCheck(p) ==
  /\ pc[p] = "poll"
  /\ IF exists(target)
       THEN /\ pc' = [pc EXCEPT ![p] =
                 IF last_mod[p][1] < get_seconds(mtime) THEN "remove" ELSE "usleep"]
            /\ UNCHANGED result
       ELSE /\ result' = [result EXCEPT ![p] = Err(RET_FILE_MISSING)]
            /\ pc' = [pc EXCEPT ![p] = "exit"]
  /\ UNCHANGED <<update, fd, held, last_mod, base_time, exitCode, lockVars, targetVars, auxVars>>

\* one iteration of the loop: get_last_mod(filename), then return or sleep
Poll(p) ==
  /\ pc[p] = "poll"
  /\ LET r == get_last_mod(target, mtime) IN
       IF r.ok
         THEN /\ pc' = [pc EXCEPT ![p] =
                   IF last_mod[p][1] < r.val THEN "remove" ELSE "usleep"]
              /\ UNCHANGED result
         ELSE /\ result' = [result EXCEPT ![p] = Err(r.val)]
              /\ pc' = [pc EXCEPT ![p] = "exit"]
  /\ UNCHANGED <<update, fd, held, last_mod, base_time, exitCode, lockVars, targetVars, auxVars>>

\* sleep(WAIT_TIME) of the modification loop is over
UpdateSleep(p) ==
  /\ pc[p] = "usleep"
  /\ pc' = [pc EXCEPT ![p] = "poll"]
  /\ UNCHANGED <<update, fd, held, last_mod, base_time, result, exitCode, lockVars, targetVars, auxVars>>

\* ---- wait_for_file (the target holds no '*': temp_filepath is the target)

\* one iteration: fs::exists(&temp_filepath).unwrap(), then return or sleep
AppearCheck(p) ==
  /\ pc[p] = "acheck"
  /\ pc' = [pc EXCEPT ![p] = IF exists(target) THEN "remove" ELSE "asleep"]
  /\ UNCHANGED <<update, fd, held, last_mod, base_time, result, exitCode, lockVars, targetVars, auxVars>>

\* sleep(WAIT_TIME) of the appearance loop is over
AppearSleep(p) ==
  /\ pc[p] = "asleep"
  /\ pc' = [pc EXCEPT ![p] = "acheck"]
  /\ UNCHANGED <<update, fd, held, last_mod, base_time, result, exitCode, lockVars, targetVars, auxVars>>

\* ---- remove_lock_file, then main returns Ok(())

\* fs::remove_file(lock_file).unwrap(): unlinks whatever is at the lock path,
\* panics when nothing is
RemoveLockFile(p) ==
  /\ pc[p] = "remove"
  /\ IF lockIno # NoIno
       THEN /\ lockIno' = NoIno
            /\ result' = [result EXCEPT ![p] = Ok]
       ELSE /\ result' = [result EXCEPT ![p] = Panic(0, "remove_file")]
            /\ UNCHANGED lockIno
  /\ pc' = [pc EXCEPT ![p] = "exit"]
  /\ UNCHANGED <<update, fd, held, last_mod, base_time, exitCode, lockDir, targetVars, auxVars>>

\* the process ends: `lock` is closed, which releases its flock
Exit(p) ==
  /\ pc[p] = "exit"
  /\ exitCode' = [exitCode EXCEPT ![p] = <<report(result[p])>>]
  /\ held' = held \ {p}
  /\ fd' = [fd EXCEPT ![p] = NoIno]
  /\ pc' = [pc EXCEPT ![p] = "done"]
  /\ UNCHANGED <<update, last_mod, base_time, result, lockVars, targetVars, auxVars>>

\* ---- the environment: the watched path

CreateTarget(t) ==
  /\ target = "absent"
  /\ target' = "file"
  /\ mtime' = t
  /\ UNCHANGED <<procVars, lockVars, auxVars>>

MakeTargetDir ==
  /\ target = "absent"
  /\ target' = "dir"
  /\ mtime' = 0
  /\ UNCHANGED <<procVars, lockVars, auxVars>>

DeleteTarget ==
  /\ target # "absent"
  /\ target' = "absent"
  /\ mtime' = 0
  /\ UNCHANGED <<procVars, lockVars, auxVars>>

TouchTarget(t) ==
  /\ target = "file"
  /\ t # mtime
  /\ mtime' = t
  /\ UNCHANGED <<target, procVars, lockVars, auxVars>>

Step(p) ==
  \/ \E u \in BOOLEAN : CheckLockDir(p, u)
  \/ CreateLockDir(p)
  \/ OpenLockFile(p)
  \/ TryLockOk(p)
  \/ TryLockFail(p)
  \/ UpdateExists(p)
  \/ Baseline(p)
  \/ Poll(p)
  \/ UpdateSleep(p)
  \/ AppearCheck(p)
  \/ AppearSleep(p)
  \/ RemoveLockFile(p)
  \/ Exit(p)

Env ==
  \/ \E t \in Times : CreateTarget(t)
  \/ MakeTargetDir
  \/ DeleteTarget
  \/ \E t \in Times : TouchTarget(t)

Next == (\E p \in Procs : Step(p)) \/ Env

\* wait_for_file and sanitize are not running
WildOff ==
  /\ filepath = <<>>
  /\ temp_filepath = <<>>
  /\ wpc = "off"
  /\ res = [kind |-> "NoRes", path |-> <<>>, site |-> ""]
  /\ entries = {}
  /\ dirOk = FALSE
  /\ overflow_checks = FALSE

SanOff ==
  /\ san_in = <<>>
  /\ san_out = <<>>
  /\ san_pc = "off"

\* the state the main program starts in
MainInit == Init /\ WildOff /\ SanOff

Spec == MainInit /\ [][Next]_vars

\* ---- what the claims speak of

\* p is past lock acquisition and inside the wait engine
InWaitEngine(p) ==
  pc[p] \in {"uexists", "baseline", "poll", "usleep", "acheck", "asleep"}

\* p takes a step
Steps(p) == pc'[p] # pc[p]

\* p's process ends in this step
Exits(p) == pc[p] = "exit" /\ pc'[p] = "done"

\* p's run ended with CannotLock / IsDirectory / FileMissing, returned or unwrapped
CannotLock(r) == r = Err(RET_CANNOT_LOCK)
IsDirectory(r) == r.kind \in {"Err", "Panic"} /\ r.code = RET_IS_DIR
FileMissing(r) == r.kind \in {"Err", "Panic"} /\ r.code = RET_FILE_MISSING

\* p's wait returned successfully: main went on to remove_lock_file
WaitSucceeded(r) == r = Ok \/ r = Panic(0, "remove_file")

\* C1: at most one instance at a time is inside the wait engine for the target
\* (mutual exclusion of the instances past lock acquisition).
C1_MutualExclusion ==
  \A p, q \in Procs : p # q => ~(InWaitEngine(p) /\ InWaitEngine(q))

\* C2: a process ends with exit code 1 if and only if its lock attempt failed
\* with CannotLock.
C2_ExitOneIffCannotLock ==
  \A p \in Procs :
    pc[p] = "done" =>
      (exitCode[p] = <<RET_CANNOT_LOCK>> <=> CannotLock(result[p]))

\* C3: an update-mode run that finds its target a directory when it captures the
\* baseline (before any poll or sleep) exits with code 2.
C3_DirectoryExitsTwo ==
  \A p \in Procs :
    (pc[p] = "done" /\ update[p] /\ IsDirectory(result[p]) /\ last_mod[p] = <<>>)
      => exitCode[p] = <<RET_IS_DIR>>

\* C4: an update-mode run whose target existed at the initial check and is gone
\* at a later stat (baseline or poll) exits with code 3.
C4_MissingExitsThree ==
  \A p \in Procs :
    (pc[p] = "done" /\ update[p] /\ FileMissing(result[p]))
      => exitCode[p] = <<RET_FILE_MISSING>>

\* C5: a process whose wait completed successfully has deleted the lock file and
\* exits with code 0, and when it has exited no lock file exists for the target.
C5_SuccessDeletesLock ==
  [][\A p \in Procs :
       (Exits(p) /\ WaitSucceeded(result[p]))
         => (exitCode'[p] = <<EXIT_SUCCESS>> /\ lockIno' = NoIno)]_vars

\* C6: when an update-mode run ends in IsDirectory or FileMissing, the process
\* exits without deleting the lock file, and the file at the lock path still
\* exists once the process has exited.
C6_FailureLeavesLockFile ==
  [][\A p \in Procs :
       (Steps(p) /\ update[p]
          /\ (IsDirectory(result'[p]) \/ FileMissing(result'[p])))
         => (lockIno' = lockIno /\ (Exits(p) => lockIno' # NoIno))]_vars

\* C7 as stated: once a process whose lock attempt failed has exited, the lock
\* file still exists and is still locked by the process that held it.
C7_StillLockedAfterExit ==
  \A p \in Procs :
    (pc[p] = "done" /\ CannotLock(result[p]))
      => (lockIno # NoIno /\ \E q \in held : fd[q] = lockIno)

\* C7 as amended: a process whose lock attempt fails finds the file it opened
\* locked by another live process, goes straight to its exit without entering
\* the wait engine, and no step it takes, its exit included, changes the file
\* at the lock path, the lock directory or who holds a lock.
C7_FailedLockChangesNothing ==
  [][\A p \in Procs :
       /\ (pc[p] = "lock" /\ ~LockFree(p) /\ Steps(p))
            => /\ CannotLock(result'[p])
               /\ \E q \in held \ {p} : fd[q] = fd[p] /\ pc[q] # "done"
       /\ (Steps(p) /\ CannotLock(result'[p]))
            => /\ lockVars' = lockVars
               /\ held' = held
               /\ p \notin held
               /\ ~InWaitEngine(p)'
               /\ pc'[p] \in {"exit", "done"}
               /\ (pc'[p] = "done" => exitCode'[p] = <<RET_CANNOT_LOCK>>)]_vars

\* a process has failed its lock attempt and exited, while the holder goes on
C7_Witness ==
  \E p \in Procs :
    /\ pc[p] = "done"
    /\ CannotLock(result[p])
    /\ \E q \in held : fd[q] = lockIno /\ InWaitEngine(q)

\* C8: in update mode, a poll that finds the regular file with a modification
\* time greater than the one it had when the baseline was captured observes the
\* update, and the process then exits with code 0.
C8_UpdateObserved ==
  [][\A p \in Procs :
       /\ (pc[p] = "poll" /\ Steps(p) /\ target = "file" /\ mtime > base_time[p][1])
            => pc'[p] = "remove"
       /\ (Exits(p) /\ update[p] /\ last_mod[p] # <<>> /\ WaitSucceeded(result[p]))
            => exitCode'[p] = <<EXIT_SUCCESS>>]_vars

\* C9: in appearance mode a poll that finds the target absent keeps the process
\* blocked with its lock, a poll that finds it present ends the wait, and the
\* process then exits with code 0.
C9_AppearanceObserved ==
  [][\A p \in Procs :
       ~update[p] =>
         /\ (pc[p] = "acheck" /\ Steps(p))
              => /\ p \in held'
                 /\ pc'[p] = IF exists(target) THEN "remove" ELSE "asleep"
         /\ (Exits(p) /\ WaitSucceeded(result[p]))
              => exitCode'[p] = <<EXIT_SUCCESS>>]_vars

\* C10: an update-mode run whose target was absent at the initial check waits
\* as appearance mode does: no baseline is captured, a poll that finds the
\* target present ends the wait with success whatever the target is, and the
\* process exits with code 0 with the lock file deleted, never with IsDirectory
\* or FileMissing.
C10_DelegatedAsAppearance ==
  [][\A p \in Procs :
       (update[p] /\ last_mod[p] = <<>>) =>
         /\ (pc[p] = "acheck" /\ Steps(p))
              => /\ pc'[p] = IF exists(target) THEN "remove" ELSE "asleep"
                 /\ last_mod'[p] = <<>>
         /\ (pc[p] \in {"acheck", "asleep", "remove"} /\ Steps(p))
              => ~IsDirectory(result'[p]) /\ ~FileMissing(result'[p])
         /\ (Exits(p) /\ WaitSucceeded(result[p]))
              => exitCode'[p] = <<EXIT_SUCCESS>>]_vars

C19_DeletesOnlyOwnLockFile ==
  [][\A p \in Procs :
       (pc[p] = "remove" /\ Steps(p)) => (lockIno # NoIno /\ lockIno = fd[p])]_vars

\* a run has ended with IsDirectory or FileMissing
Failed(r) == IsDirectory(r) \/ FileMissing(r)

\* C20: when a failed update-mode run has exited and a lock file that no live
\* instance has open is at the lock path, the next instance opens that file
\* (creating nothing), and its lock attempt on it, with no live holder, takes it
\* into the wait engine, not to CannotLock.
C20_LeftoverDoesNotBlock ==
  [][\A q \in Procs :
       (\E r \in Procs : pc[r] = "done" /\ Failed(result[r])) =>
         /\ (pc[q] = "open" /\ Steps(q) /\ lockIno # NoIno
               /\ \A s \in Procs : fd[s] # lockIno)
              => (fd'[q] = lockIno /\ lockIno' = lockIno /\ pc'[q] = "lock")
         /\ (pc[q] = "lock" /\ Steps(q) /\ fd[q] = lockIno
               /\ \A s \in held : fd[s] # lockIno)
              => (InWaitEngine(q)' /\ q \in held' /\ result'[q] = Running)]_vars

\* an instance is inside the wait engine holding the lock of a file that a
\* failed run created and left behind
C20_Witness ==
  \E q \in Procs :
    /\ InWaitEngine(q)
    /\ fd[q] = lockIno
    /\ fd[q] # q
    /\ lockIno # NoIno
    /\ \E r \in Procs : r = lockIno /\ pc[r] = "done" /\ Failed(result[r])

(***************************************************************************)
(* wait_for_file on a pattern, and resolve_file_name                       *)
(*                                                                         *)
(* A string is a sequence of one-character strings.  Positions are         *)
(* 1-based; find and rfind give 0 where the code gets None.                *)
(***************************************************************************)
PartChars == {"a", "b"}
DirPath == <<"d", "/">>

StringsOver(chars, lo, hi) == UNION {[1..n -> chars] : n \in lo..hi}

Parts == StringsOver(PartChars, 0, MaxPart)
Names == StringsOver(PartChars, 1, MaxName)

\* dir/prefix*suffix
WildPatterns == {DirPath \o pre \o <<"*">> \o suf : pre \in Parts, suf \in Parts}
\* no '/' at all; the marker only in the directory part; no marker
NoSlashPattern == <<"a", "*", "b">>
DirMarkerPattern == <<"d", "*", "/", "a">>
LiteralPath == <<"d", "/", "a">>
Patterns == WildPatterns \cup {NoSlashPattern, DirMarkerPattern, LiteralPath}

contains(s, c) == \E i \in 1..Len(s) : s[i] = c

find(s, c) ==
  IF contains(s, c)
  THEN CHOOSE i \in 1..Len(s) : s[i] = c /\ \A j \in 1..(i - 1) : s[j] # c
  ELSE 0

rfind(s, c) ==
  IF contains(s, c)
  THEN CHOOSE i \in 1..Len(s) : s[i] = c /\ \A j \in (i + 1)..Len(s) : s[j] # c
  ELSE 0

starts_with(s, t) == Len(t) <= Len(s) /\ SubSeq(s, 1, Len(t)) = t
ends_with(s, t) == Len(t) <= Len(s) /\ SubSeq(s, Len(s) - Len(t) + 1, Len(s)) = t

NoRes == [kind |-> "NoRes", path |-> <<>>, site |-> ""]
RNone == [kind |-> "None", path |-> <<>>, site |-> ""]
RSome(f) == [kind |-> "Some", path |-> f, site |-> ""]
RPanic(s) == [kind |-> "Panic", path |-> <<>>, site |-> s]

\* fs::read_dir(path) succeeds
Readable(path, ok) == ok /\ path = DirPath

\* fs::exists(f)
PathExists(f, ok, ents) == ok /\ \E n \in ents : f = DirPath \o n

\* Every outcome resolve_file_name(filename) can have.  read_dir yields the
\* entries in no particular order, so any entry that passes the test may be
\* the first one met.  With an empty prefix part_a.len()-1 overflows: a
\* build with overflow checks panics there, a build without them wraps to
\* the largest usize and the slice part_a[0..part_a_end] panics as soon as
\* an entry passes the length test.
ResolveOutcomes(filename, ok, ents, checks) ==
  LET a == rfind(filename, "/") IN
  IF a = 0 THEN {RPanic("rfind")} ELSE
  LET path == SubSeq(filename, 1, a)
      file == SubSeq(filename, a + 1, Len(filename))
      star == find(file, "*")
  IN
  IF star = 0 THEN {RPanic("find")} ELSE
  LET part_a == SubSeq(file, 1, star - 1)
      part_b == SubSeq(file, star, Len(file))
      file_len == Len(file) - 1
  IN
  IF Len(part_a) = 0 /\ checks THEN {RPanic("part_a_end")} ELSE
  IF ~Readable(path, ok) THEN {RPanic("read_dir")} ELSE
  IF Len(part_a) = 0
  THEN IF \E n \in ents : Len(n) >= file_len THEN {RPanic("slice")} ELSE {RNone}
  ELSE
    LET part_a_end == Len(part_a) - 1
        hits == {n \in ents :
                   /\ Len(n) >= file_len
                   /\ starts_with(n, SubSeq(part_a, 1, part_a_end))
                   /\ ends_with(n, SubSeq(part_b, 2, Len(part_b)))}
    IN IF hits = {} THEN {RNone} ELSE {RSome(path \o n) : n \in hits}

WildInit ==
  /\ filepath \in Patterns
  /\ temp_filepath = filepath
  /\ wpc = "top"
  /\ res = NoRes
  /\ entries = {}
  /\ dirOk \in BOOLEAN
  /\ overflow_checks \in BOOLEAN

\* if filepath.contains('*') { if let Some(filename) = resolve_file_name(..) }
WResolve ==
  /\ wpc = "top"
  /\ contains(filepath, "*")
  /\ \E o \in ResolveOutcomes(filepath, dirOk, entries, overflow_checks) :
       /\ res' = o
       /\ wpc' = IF o.kind = "Panic" THEN "panicked" ELSE "check"
       /\ temp_filepath' = IF o.kind = "Some" THEN o.path ELSE temp_filepath
  /\ UNCHANGED <<filepath, entries, dirOk, overflow_checks, vars, sanVars>>

\* the existence check looks at the pattern, not at the resolved path
WCheck_Pattern ==
  /\ \/ wpc = "check"
     \/ wpc = "top" /\ ~contains(filepath, "*")
  /\ wpc' = IF PathExists(filepath, dirOk, entries) THEN "returned" ELSE "sleep"
  /\ UNCHANGED <<filepath, temp_filepath, res, entries, dirOk, overflow_checks,
                 vars, sanVars>>

\* if fs::exists(&temp_filepath).unwrap() { return; }
WCheck ==
  /\ \/ wpc = "check"
     \/ wpc = "top" /\ ~contains(filepath, "*")
  /\ wpc' = IF PathExists(temp_filepath, dirOk, entries) THEN "returned" ELSE "sleep"
  /\ UNCHANGED <<filepath, temp_filepath, res, entries, dirOk, overflow_checks,
                 vars, sanVars>>

\* sleep(WAIT_TIME), and the next iteration begins
WSleep ==
  /\ wpc = "sleep"
  /\ wpc' = "top"
  /\ res' = NoRes
  /\ UNCHANGED <<filepath, temp_filepath, entries, dirOk, overflow_checks,
                 vars, sanVars>>

\* other programs change the directory
AddEntry(n) ==
  /\ dirOk
  /\ n \notin entries
  /\ Cardinality(entries) < MaxEntries
  /\ entries' = entries \cup {n}
  /\ UNCHANGED <<filepath, temp_filepath, wpc, res, dirOk, overflow_checks,
                 vars, sanVars>>

RemoveEntry(n) ==
  /\ dirOk
  /\ n \in entries
  /\ entries' = entries \ {n}
  /\ UNCHANGED <<filepath, temp_filepath, wpc, res, dirOk, overflow_checks,
                 vars, sanVars>>

MakeDir ==
  /\ ~dirOk
  /\ dirOk' = TRUE
  /\ UNCHANGED <<filepath, temp_filepath, wpc, res, entries, overflow_checks,
                 vars, sanVars>>

RemoveDir ==
  /\ dirOk
  /\ entries = {}
  /\ dirOk' = FALSE
  /\ UNCHANGED <<filepath, temp_filepath, wpc, res, entries, overflow_checks,
                 vars, sanVars>>

WildEnv ==
  \/ \E n \in Names : AddEntry(n)
  \/ \E n \in Names : RemoveEntry(n)
  \/ MakeDir
  \/ RemoveDir

WildNext == WResolve \/ WCheck \/ WSleep \/ WildEnv

\* the main program is not running: its variables stay as Init leaves them
MainOff == Init /\ lockDir /\ target = "absent"

\* the state wait_for_file is called in
WildStart == MainOff /\ WildInit /\ SanOff

SpecWild == WildStart /\ [][WildNext]_allVars

(***************************************************************************)
(* The pattern as the specification reads it                                *)
(***************************************************************************)
\* the final segment, and what stands before and after its marker
FilePart(f) == SubSeq(f, rfind(f, "/") + 1, Len(f))
PrefixOf(f) == SubSeq(FilePart(f), 1, find(FilePart(f), "*") - 1)
SuffixOf(f) == SubSeq(FilePart(f), find(FilePart(f), "*") + 1, Len(FilePart(f)))
Matches(n, f) == starts_with(n, PrefixOf(f)) /\ ends_with(n, SuffixOf(f))

\* wait_for_file takes a step
WSteps == wpc' # wpc

\* C11: for a pattern dir/prefix*suffix over a readable directory, the
\* resolver returns the directory plus the name of an entry that starts with
\* prefix and ends with suffix whenever there is one (it neither returns
\* none nor aborts), and returns none, the loop going on to its existence
\* check, when there is none.
C11_ResolverFindsMatch ==
  [][(wpc = "top" /\ WSteps /\ filepath \in WildPatterns /\ dirOk) =>
       IF \E n \in entries : Matches(n, filepath)
       THEN /\ res'.kind = "Some"
            /\ \E n \in entries : Matches(n, filepath) /\ res'.path = DirPath \o n
       ELSE /\ res'.kind = "None"
            /\ wpc' = "check"]_allVars

\* C14: every path the resolver returns is the directory plus the name of
\* an entry that starts with the whole prefix, ends with the whole suffix
\* and is at least as long as the final segment minus one.
C14_ReturnedEntryMatches ==
  [][(wpc = "top" /\ WSteps /\ res'.kind = "Some") =>
       \E n \in entries :
         /\ res'.path = DirPath \o n
         /\ Matches(n, filepath)
         /\ Len(n) >= Len(FilePart(filepath)) - 1]_allVars

\* C15: when the directory cannot be read, the pattern has no '/', or the
\* final segment has no marker, the resolver returns none and the loop goes
\* on to its existence check and sleep; the process is not terminated.
C15_UnresolvableGivesNone ==
  [][(/\ wpc = "top" /\ WSteps /\ contains(filepath, "*")
      /\ \/ ~dirOk
         \/ ~contains(filepath, "/")
         \/ ~contains(FilePart(filepath), "*")) =>
       (res'.kind = "None" /\ wpc' = "check")]_allVars

\* C16: wait_for_file stops looping only by returning from an iteration
\* whose existence check found the path present; nothing else ends the loop.
C16_LeavesOnlyBySuccess ==
  [][(wpc \in {"top", "check", "sleep"} /\ wpc' \notin {"top", "check", "sleep"}) =>
       (wpc' = "returned" /\ PathExists(temp_filepath, dirOk, entries))]_allVars

\* C18, as stated: resolution is attempted in every iteration, and an
\* iteration in which the resolver returned a match returns; no sleep
\* follows a successful resolution.
C18_NoSleepAfterResolution ==
  [][/\ (wpc = "top" /\ contains(filepath, "*") /\ WSteps) => res' # NoRes
     /\ (wpc = "check" /\ res.kind = "Some" /\ WSteps) => wpc' = "returned"]_allVars

\* C18, amended: resolution is attempted in every iteration, and an
\* iteration in which the resolver returned a match checks that very path:
\* it returns if the path is still there at the existence check, and sleeps
\* if the entry was removed between the two steps.
C18_ReturnsIffStillPresent ==
  [][/\ (wpc = "top" /\ contains(filepath, "*") /\ WSteps) => res' # NoRes
     /\ (wpc = "check" /\ res.kind = "Some" /\ WSteps) =>
          /\ temp_filepath = res.path
          /\ wpc' = IF PathExists(res.path, dirOk, entries)
                    THEN "returned" ELSE "sleep"]_allVars

\* an iteration resolved the pattern and returned
C18_Witness ==
  /\ wpc = "returned"
  /\ contains(filepath, "*")
  /\ res.kind = "Some"
  /\ PathExists(res.path, dirOk, entries)

(***************************************************************************)
(* sanitize                                                                *)
(*                                                                         *)
(* The characters stand for the classes the pattern [^a-zA-Z0-9] tells     *)
(* apart: a lower-case letter, an upper-case letter, a digit, and four     *)
(* characters outside the three ranges.                                    *)
(***************************************************************************)
LowerChars == {"a"}
UpperChars == {"Z"}
DigitChars == {"5"}
OtherChars == {"_", "/", "*", "."}
SanChars == LowerChars \cup UpperChars \cup DigitChars \cup OtherChars

\* [^a-zA-Z0-9] matches c
NotAlnum(c) == c \notin (LowerChars \cup UpperChars \cup DigitChars)

\* the pattern [^a-zA-Z0-9]+ instead: a whole run of such characters is one
\* match and gives place to one "_"
RECURSIVE sanitize_Runs(_)
sanitize_Runs(input) ==
  IF input = <<>> THEN <<>>
  ELSE IF NotAlnum(Head(input))
       THEN IF Len(input) > 1 /\ NotAlnum(input[2])
            THEN sanitize_Runs(Tail(input))
            ELSE <<"_">> \o sanitize_Runs(Tail(input))
       ELSE <<Head(input)>> \o sanitize_Runs(Tail(input))

\* regex.replace_all(input, "_"): left to right, every match (one
\* character) gives place to "_", the text between matches is copied
RECURSIVE replace_all(_)
replace_all(s) ==
  IF s = <<>> THEN <<>>
  ELSE (IF NotAlnum(Head(s)) THEN <<"_">> ELSE <<Head(s)>>) \o replace_all(Tail(s))

sanitize(input) == replace_all(input)

SanInit ==
  /\ san_in \in StringsOver(SanChars, 0, MaxLen)
  /\ san_out = <<>>
  /\ san_pc = "call"

Sanitize ==
  /\ san_pc = "call"
  /\ san_out' = sanitize(san_in)
  /\ san_pc' = "done"
  /\ UNCHANGED <<san_in, vars, wildVars>>

SanNext == Sanitize

\* the state sanitize is called in
SanStart == MainOff /\ WildOff /\ SanInit

SpecSanitize == SanStart /\ [][SanNext]_allVars

\* C12: sanitize returns a string of the same length in which every
\* character is in [A-Za-z0-9_]: a character outside [A-Za-z0-9] has become
\* one underscore, every other character is kept in place.
C12_SanitizeKeepsLength ==
  san_pc = "done" =>
    /\ Len(san_out) = Len(san_in)
    /\ \A i \in 1..Len(san_out) :
         /\ san_out[i] \in LowerChars \cup UpperChars \cup DigitChars \cup {"_"}
         /\ san_out[i] = IF NotAlnum(san_in[i]) THEN "_" ELSE san_in[i]

\* an input with two neighbouring characters outside [A-Za-z0-9] and a
\* letter or digit has been sanitized
C12_Witness ==
  /\ san_pc = "done"
  /\ \E i \in 1..(Len(san_in) - 1) :
       NotAlnum(san_in[i]) /\ NotAlnum(san_in[i + 1]) /\ san_in[i] # "_"
  /\ \E i \in 1..Len(san_in) : ~NotAlnum(san_in[i])

====
